---- MODULE Spec2Model ----
(***************************************************************************)
(* Model of the admin dashboard component App (frontend/src/App.js).       *)
(*                                                                         *)
(* The React state of the component is the state of the model.  One action *)
(* is one run-to-completion JavaScript job: an event handler up to its     *)
(* first await, or the continuation that runs when an awaited promise      *)
(* settles.  Backend responses are inputs chosen by the environment.       *)
(***************************************************************************)
EXTENDS Integers, Sequences, FiniteSets, TLC

VARIABLES
  mounted,        \* the mount effect (useEffect with []) has run
  activeTab,      \* useState('dashboard')
  stats,          \* useState({})
  users,          \* useState([])
  searches,       \* useState([])
  loading,        \* useState(false)
  searchQuery,    \* useState(''), a sequence of characters
  searchResults,  \* useState(null)
  giveUserId,     \* useState(''), a sequence of characters
  giveAttempts,   \* useState(''), a sequence of characters
  loads,          \* the runs of loadDashboardData, in the order they started
  searchReq,      \* the POST /search requests awaiting a response
  giveReq,        \* the POST /give-attempts requests awaiting a response
  out,            \* what the last job wrote: an alert or a console.error
  formatted       \* the text the <pre> of the test tab shows

vars == <<mounted, activeTab, stats, users, searches, loading, searchQuery,
          searchResults, giveUserId, giveAttempts, loads, searchReq, giveReq,
          out, formatted>>

viewState == <<stats, users, searches>>

-----------------------------------------------------------------------------
(* Bounds *)

MaxRuns == 2        \* runs of loadDashboardData in one behaviour
MaxItems == 6       \* length of data.items in a formatted payload

-----------------------------------------------------------------------------
(* JavaScript values *)

\* null, as the value of searchResults
Null == [isNull |-> TRUE]

\* an object without own properties
EmptyObject == [f \in {} |-> 0]

Has(o, f) == f \in DOMAIN o

\* `o.f || dflt` for a string-valued property: absent and '' are falsy
OrString(o, f, dflt) == IF Has(o, f) /\ o[f] # "" THEN o[f] ELSE dflt

\* `o.f || dflt` for a number-valued property: absent and 0 are falsy
OrNumber(o, f, dflt) == IF Has(o, f) /\ o[f] # 0 THEN o[f] ELSE dflt

Tabs == {"dashboard", "users", "searches", "test", "manage"}

Reads == {"stats", "users", "searches"}

\* the characters a text input can hold in the model
Whitespace == {" "}
Digits == {"0", "1", "2", "3", "4", "5", "6", "7", "8", "9"}

\* String.prototype.trim: drops leading and trailing whitespace
RECURSIVE TrimStart(_)
TrimStart(s) ==
  IF s # <<>> /\ Head(s) \in Whitespace THEN TrimStart(Tail(s)) ELSE s

RECURSIVE TrimEnd(_)
TrimEnd(s) ==
  IF s # <<>> /\ s[Len(s)] \in Whitespace
  THEN TrimEnd(SubSeq(s, 1, Len(s) - 1))
  ELSE s

\* Variant of Trim: the text is tested as it is, `!searchQuery`
Trim_none(s) == s

Trim(s) == TrimEnd(TrimStart(s))

\* encodeURIComponent on the characters of the model: a space is escaped
RECURSIVE encodeURIComponent(_)
encodeURIComponent(s) ==
  IF s = <<>> THEN <<>>
  ELSE (IF Head(s) = " " THEN <<"%", "2", "0">> ELSE <<Head(s)>>)
       \o encodeURIComponent(Tail(s))

DigitValue(c) ==
  CASE c = "0" -> 0 [] c = "1" -> 1 [] c = "2" -> 2 [] c = "3" -> 3
    [] c = "4" -> 4 [] c = "5" -> 5 [] c = "6" -> 6 [] c = "7" -> 7
    [] c = "8" -> 8 [] c = "9" -> 9

RECURSIVE ParseDigits(_, _)
ParseDigits(s, acc) ==
  IF s # <<>> /\ Head(s) \in Digits
  THEN ParseDigits(Tail(s), 10 * acc + DigitValue(Head(s)))
  ELSE acc

\* parseInt on unsigned input: leading whitespace is skipped, the leading
\* digits are read, and a string without leading digit gives NaN
parseInt(s) ==
  LET t == TrimStart(s)
  IN IF t # <<>> /\ Head(t) \in Digits
     THEN [nan |-> FALSE, n |-> ParseDigits(t, 0)]
     ELSE [nan |-> TRUE, n |-> 0]

-----------------------------------------------------------------------------
(* formatResults *)

\* A JavaScript array is a record with isArray TRUE and the elements in
\* elems; any other value of data.items is a record with isArray FALSE.
Array(elems) == [isArray |-> TRUE, elems |-> elems]
NotAnArray == [isArray |-> FALSE]

Min(a, b) == IF a < b THEN a ELSE b

\* Variant of slice: the end is not applied, `slice(0)`
slice_noEnd(s, from, to) == SubSeq(s, from + 1, Len(s))

\* Array.prototype.slice(from, to) with 0-based from and exclusive to
slice(s, from, to) == SubSeq(s, from + 1, Min(to, Len(s)))

\* The text is a sequence of lines; every line ends with "\n".
BlankLine == [line |-> "blank"]

\* the body of the forEach callback: the lines one item adds
formatItem(item, index) ==
  IF Has(item, "source") /\ Has(item, "hits")
  THEN << [line |-> "Database", number |-> index + 1,
           database |-> OrString(item.source, "database", "N/A")],
          [line |-> "Collection",
           collection |-> OrString(item.source, "collection", "N/A")],
          [line |-> "Hits",
           hits |-> OrNumber(item.hits, "hitsCount",
                             OrNumber(item.hits, "count", 0))],
          BlankLine >>
  ELSE << >>

\* forEach over the slice, from the 0-based index on
RECURSIVE forEachItem(_, _)
forEachItem(items, index) ==
  IF index >= Len(items) THEN << >>
  ELSE formatItem(items[index + 1], index) \o forEachItem(items, index + 1)

formatResults(results) ==
  IF results = Null THEN << >>
  ELSE IF Has(results, "error") /\ results.error # ""
  THEN << [line |-> "Error", error |-> results.error] >>
  ELSE
    LET data == IF Has(results, "data") THEN results.data ELSE EmptyObject
        count == OrNumber(data, "count", 0)
        header == << [line |-> "Found", count |-> count], BlankLine >>
    IN IF count = 0 THEN << [line |-> "No results found"] >>
       ELSE IF Has(data, "items") /\ data.items.isArray
       THEN header \o forEachItem(slice(data.items.elems, 0, 5), 0)
       ELSE header

\* what the <pre> of the test tab shows: nothing unless the tab is active
\* and searchResults is set
NotRendered == << [line |-> "not rendered"] >>

RenderPre(tab, results) ==
  IF tab = "test" /\ results # Null THEN formatResults(results)
  ELSE NotRendered

-----------------------------------------------------------------------------
(* Inputs of the environment *)

\* texts typed into the search field
Queries == { << >>, << " " >>, << " ", "a" >> }

\* texts typed into the user id field (type="text")
UserIdTexts == { << >>, << "4", "2" >> }

\* texts typed into the attempts field (type="number")
AttemptsTexts == { << >>, << "3" >> }

FullItem == [source |-> [database |-> "db1", collection |-> "c1"],
             hits |-> [hitsCount |-> 7]]

\* bodies the backend answers POST /search with
SearchPayloads ==
  { [data |-> [count |-> 1, items |-> Array(<< FullItem >>)]] }

\* The body of the response to GET /<read> of run number run.  Every
\* response is told apart from every other, the most general backend.
ResponseData(read, run) ==
  IF read = "stats" THEN [read |-> read, run |-> run]
  ELSE << [read |-> read, run |-> run] >>

-----------------------------------------------------------------------------
(* State after construction: the useState initial values, no effect run *)

Init ==
  /\ mounted = FALSE
  /\ activeTab = "dashboard"
  /\ stats = EmptyObject
  /\ users = << >>
  /\ searches = << >>
  /\ loading = FALSE
  /\ searchQuery = << >>
  /\ searchResults = Null
  /\ giveUserId = << >>
  /\ giveAttempts = << >>
  /\ loads = << >>
  /\ searchReq = << >>
  /\ giveReq = << >>
  /\ out = << >>
  /\ formatted = NotRendered

\* the render that follows every state update
Render == formatted' = RenderPre(activeTab', searchResults')

-----------------------------------------------------------------------------
(* loadDashboardData *)

\* A run of loadDashboardData: the caller that started it, where it stands
\* (awaiting Promise.all, applied by the continuation, or failed into the
\* catch) and, while it waits, the reads Promise.all holds a response of.
\* A settled run holds no response any more.
NewRun(by) == [st |-> "pending", got |-> {}, by |-> by]

\* the runs that can still be started in this behaviour; a grant request in
\* flight keeps one for the refresh it makes on success
RunsLeft == MaxRuns - Len(loads) - Len(giveReq)

\* the synchronous part of loadDashboardData: the three GETs are sent
loadDashboardData(by) == loads' = Append(loads, NewRun(by))

\* useEffect(() => { loadDashboardData(); }, [])
Mount ==
  /\ ~mounted
  /\ mounted' = TRUE
  /\ loadDashboardData("mount")
  /\ out' = << >>
  /\ UNCHANGED <<activeTab, stats, users, searches, loading, searchQuery,
                 searchResults, giveUserId, giveAttempts, searchReq, giveReq>>
  /\ Render

\* the Refresh buttons of the users and searches tabs
ClickRefresh ==
  /\ mounted
  /\ activeTab \in {"users", "searches"}
  /\ RunsLeft > 0
  /\ loadDashboardData("refresh")
  /\ out' = << >>
  /\ UNCHANGED <<mounted, activeTab, stats, users, searches, loading,
                 searchQuery, searchResults, giveUserId, giveAttempts,
                 searchReq, giveReq>>
  /\ Render

\* Promise.all fulfils once every read has a response
AllFulfilled(got) == got = Reads

\* Variant of ApplyResponses: setSearches is left out
ApplyResponses_noSearches(i) ==
  /\ stats' = ResponseData("stats", i)
  /\ users' = ResponseData("users", i)
  /\ UNCHANGED searches

\* Variant of ApplyResponses: the responses of a run are dropped when a run
\* started later was applied already
ApplyResponses_ifNewest(i) ==
  IF \E j \in (i + 1)..Len(loads) : loads[j].st = "applied"
  THEN UNCHANGED <<stats, users, searches>>
  ELSE /\ stats' = ResponseData("stats", i)
       /\ users' = ResponseData("users", i)
       /\ searches' = ResponseData("searches", i)

\* the continuation after the await: the three setters, one job
ApplyResponses(i) ==
  /\ stats' = ResponseData("stats", i)
  /\ users' = ResponseData("users", i)
  /\ searches' = ResponseData("searches", i)

\* Variant of LoadResponse: one .then per request, every fulfilment sets its
\* own field when it arrives
LoadResponse_perResponse(i, read, ok) ==
  /\ i \in 1..Len(loads)
  /\ loads[i].st = "pending"
  /\ read \notin loads[i].got
  /\ IF ~ok
     THEN /\ loads' = [loads EXCEPT ![i].st = "failed", ![i].got = {}]
          /\ out' = << "console.error: Error loading dashboard data:" >>
          /\ UNCHANGED <<stats, users, searches>>
     ELSE /\ loads' = IF loads[i].got \cup {read} = Reads
                      THEN [loads EXCEPT ![i].st = "applied", ![i].got = {}]
                      ELSE [loads EXCEPT ![i].got = @ \cup {read}]
          /\ out' = << >>
          /\ stats' = IF read = "stats" THEN ResponseData(read, i) ELSE stats
          /\ users' = IF read = "users" THEN ResponseData(read, i) ELSE users
          /\ searches' = IF read = "searches" THEN ResponseData(read, i)
                         ELSE searches
  /\ UNCHANGED <<mounted, activeTab, loading, searchQuery, searchResults,
                 giveUserId, giveAttempts, searchReq, giveReq>>
  /\ Render

\* One GET of run i is answered while the run awaits Promise.all.  A
\* fulfilment is kept; the third one fulfils Promise.all and the
\* continuation applies the three responses.  A rejection rejects
\* Promise.all at once and the catch logs.  Responses that arrive after
\* the rejection reach no code of the component and are no step.
LoadResponse(i, read, ok) ==
  /\ i \in 1..Len(loads)
  /\ loads[i].st = "pending"
  /\ read \notin loads[i].got
  /\ IF ~ok
     THEN /\ loads' = [loads EXCEPT ![i].st = "failed", ![i].got = {}]
          /\ out' = << "console.error: Error loading dashboard data:" >>
          /\ UNCHANGED <<stats, users, searches>>
     ELSE IF AllFulfilled(loads[i].got \cup {read})
     THEN /\ loads' = [loads EXCEPT ![i].st = "applied", ![i].got = {}]
          /\ ApplyResponses(i)
          /\ out' = << >>
     ELSE /\ loads' = [loads EXCEPT ![i].got = @ \cup {read}]
          /\ out' = << >>
          /\ UNCHANGED <<stats, users, searches>>
  /\ UNCHANGED <<mounted, activeTab, loading, searchQuery, searchResults,
                 giveUserId, giveAttempts, searchReq, giveReq>>
  /\ Render

-----------------------------------------------------------------------------
(* Tab Router *)

setActiveTab(tab) ==
  /\ mounted
  /\ activeTab' = tab
  /\ out' = << >>
  /\ UNCHANGED <<mounted, stats, users, searches, loading, searchQuery,
                 searchResults, giveUserId, giveAttempts, loads, searchReq,
                 giveReq>>
  /\ Render

-----------------------------------------------------------------------------
(* Search Tester *)

\* onChange of the search field, rendered on the test tab only
setSearchQuery(q) ==
  /\ mounted
  /\ activeTab = "test"
  /\ q # searchQuery
  /\ searchQuery' = q
  /\ out' = << >>
  /\ UNCHANGED <<mounted, activeTab, stats, users, searches, loading,
                 searchResults, giveUserId, giveAttempts, loads, searchReq,
                 giveReq>>
  /\ Render

\* Variant of SearchDisabled: the busy flag is not looked at
SearchDisabled_noLoading == Trim(searchQuery) = << >>

\* disabled={loading || !searchQuery.trim()}
SearchDisabled == loading \/ Trim(searchQuery) = << >>

\* handleSearch up to its await
handleSearch ==
  IF Trim(searchQuery) = << >>
  THEN /\ out' = << >>
       /\ UNCHANGED <<loading, searchReq>>
  ELSE /\ loading' = TRUE
       /\ searchReq' = Append(searchReq,
                              [query |-> encodeURIComponent(searchQuery)])
       /\ out' = << >>

RemoveAt(s, i) == SubSeq(s, 1, i - 1) \o SubSeq(s, i + 1, Len(s))

\* a click on the Search button; a disabled button dispatches no click
ClickSearch ==
  /\ mounted
  /\ activeTab = "test"
  /\ IF SearchDisabled
     THEN /\ out' = << "disabled: Search" >>
          /\ UNCHANGED <<loading, searchReq>>
     ELSE handleSearch
  /\ UNCHANGED <<mounted, activeTab, stats, users, searches, searchQuery,
                 searchResults, giveUserId, giveAttempts, loads, giveReq>>
  /\ Render

\* Variant of SearchResponse: a successful search refreshes the dashboard
SearchResponse_reload(i, ok, payload) ==
  /\ i \in 1..Len(searchReq)
  /\ searchReq' = RemoveAt(searchReq, i)
  /\ IF ok
     THEN /\ searchResults' = payload
          /\ out' = << >>
          /\ loadDashboardData("search")
     ELSE /\ searchResults' = [error |-> "Search failed"]
          /\ out' = << "console.error: Search error:" >>
          /\ UNCHANGED loads
  /\ loading' = FALSE
  /\ UNCHANGED <<mounted, activeTab, stats, users, searches, searchQuery,
                 giveUserId, giveAttempts, giveReq>>
  /\ Render

\* Variant of SearchResponse: no finally, the flag is cleared after a
\* successful request only
SearchResponse_noFinally(i, ok, payload) ==
  /\ i \in 1..Len(searchReq)
  /\ searchReq' = RemoveAt(searchReq, i)
  /\ IF ok
     THEN /\ searchResults' = payload
          /\ out' = << >>
          /\ loading' = FALSE
     ELSE /\ searchResults' = [error |-> "Search failed"]
          /\ out' = << "console.error: Search error:" >>
          /\ UNCHANGED loading
  /\ UNCHANGED <<mounted, activeTab, stats, users, searches, searchQuery,
                 giveUserId, giveAttempts, loads, giveReq>>
  /\ Render

\* the rest of handleSearch: the response to request i arrives (ok, with
\* the body payload) or the request fails
SearchResponse(i, ok, payload) ==
  /\ i \in 1..Len(searchReq)
  /\ searchReq' = RemoveAt(searchReq, i)
  /\ IF ok
     THEN /\ searchResults' = payload
          /\ out' = << >>
     ELSE /\ searchResults' = [error |-> "Search failed"]
          /\ out' = << "console.error: Search error:" >>
  /\ loading' = FALSE
  /\ UNCHANGED <<mounted, activeTab, stats, users, searches, searchQuery,
                 giveUserId, giveAttempts, loads, giveReq>>
  /\ Render

-----------------------------------------------------------------------------
(* Attempt Granter *)

\* onChange of the two fields of the manage tab
setGiveUserId(v) ==
  /\ mounted
  /\ activeTab = "manage"
  /\ v # giveUserId
  /\ giveUserId' = v
  /\ out' = << >>
  /\ UNCHANGED <<mounted, activeTab, stats, users, searches, loading,
                 searchQuery, searchResults, giveAttempts, loads, searchReq,
                 giveReq>>
  /\ Render

setGiveAttempts(v) ==
  /\ mounted
  /\ activeTab = "manage"
  /\ v # giveAttempts
  /\ giveAttempts' = v
  /\ out' = << >>
  /\ UNCHANGED <<mounted, activeTab, stats, users, searches, loading,
                 searchQuery, searchResults, giveUserId, loads, searchReq,
                 giveReq>>
  /\ Render

\* disabled={loading || !giveUserId || !giveAttempts}
GiveDisabled == loading \/ giveUserId = << >> \/ giveAttempts = << >>

\* handleGiveAttempts up to its await
handleGiveAttempts ==
  IF giveUserId = << >> \/ giveAttempts = << >>
  THEN /\ out' = << >>
       /\ UNCHANGED <<loading, giveReq>>
  ELSE /\ loading' = TRUE
       /\ giveReq' = Append(giveReq, [user_id |-> parseInt(giveUserId),
                                      attempts |-> parseInt(giveAttempts)])
       /\ out' = << >>

\* a click on the Give Attempts button
ClickGiveAttempts ==
  /\ mounted
  /\ activeTab = "manage"
  /\ IF GiveDisabled
     THEN /\ out' = << "disabled: Give Attempts" >>
          /\ UNCHANGED <<loading, giveReq>>
     ELSE /\ RunsLeft > 0
          /\ handleGiveAttempts
  /\ UNCHANGED <<mounted, activeTab, stats, users, searches, searchQuery,
                 searchResults, giveUserId, giveAttempts, loads, searchReq>>
  /\ Render

\* Variant of GiveResponse: setGiveAttempts('') is left out
GiveResponse_keepAttempts(i, ok) ==
  /\ i \in 1..Len(giveReq)
  /\ giveReq' = RemoveAt(giveReq, i)
  /\ IF ok
     THEN /\ out' = << "alert: Attempts given successfully!" >>
          /\ giveUserId' = << >>
          /\ UNCHANGED giveAttempts
          /\ loadDashboardData("give")
     ELSE /\ out' = << "console.error: Give attempts error:",
                       "alert: Failed to give attempts" >>
          /\ UNCHANGED <<giveUserId, giveAttempts, loads>>
  /\ loading' = FALSE
  /\ UNCHANGED <<mounted, activeTab, stats, users, searches, searchQuery,
                 searchResults, searchReq>>
  /\ Render

\* Variant of GiveResponse: the flag is cleared in the catch only
GiveResponse_busyAfterSuccess(i, ok) ==
  /\ i \in 1..Len(giveReq)
  /\ giveReq' = RemoveAt(giveReq, i)
  /\ IF ok
     THEN /\ out' = << "alert: Attempts given successfully!" >>
          /\ giveUserId' = << >>
          /\ giveAttempts' = << >>
          /\ loadDashboardData("give")
          /\ UNCHANGED loading
     ELSE /\ out' = << "console.error: Give attempts error:",
                       "alert: Failed to give attempts" >>
          /\ loading' = FALSE
          /\ UNCHANGED <<giveUserId, giveAttempts, loads>>
  /\ UNCHANGED <<mounted, activeTab, stats, users, searches, searchQuery,
                 searchResults, searchReq>>
  /\ Render

\* the rest of handleGiveAttempts: request i succeeds or fails
GiveResponse(i, ok) ==
  /\ i \in 1..Len(giveReq)
  /\ giveReq' = RemoveAt(giveReq, i)
  /\ IF ok
     THEN /\ out' = << "alert: Attempts given successfully!" >>
          /\ giveUserId' = << >>
          /\ giveAttempts' = << >>
          /\ loadDashboardData("give")
     ELSE /\ out' = << "console.error: Give attempts error:",
                       "alert: Failed to give attempts" >>
          /\ UNCHANGED <<giveUserId, giveAttempts, loads>>
  /\ loading' = FALSE
  /\ UNCHANGED <<mounted, activeTab, stats, users, searches, searchQuery,
                 searchResults, searchReq>>
  /\ Render

-----------------------------------------------------------------------------
(* The component *)

Next ==
  \/ Mount
  \/ ClickRefresh
  \/ \E i \in 1..Len(loads), read \in Reads, ok \in BOOLEAN :
       LoadResponse(i, read, ok)
  \/ \E tab \in Tabs : setActiveTab(tab)
  \/ \E q \in Queries : setSearchQuery(q)
  \/ ClickSearch
  \/ \E i \in 1..Len(searchReq), ok \in BOOLEAN, payload \in SearchPayloads :
       SearchResponse(i, ok, payload)
  \/ \E v \in UserIdTexts : setGiveUserId(v)
  \/ \E v \in AttemptsTexts : setGiveAttempts(v)
  \/ ClickGiveAttempts
  \/ \E i \in 1..Len(giveReq), ok \in BOOLEAN : GiveResponse(i, ok)

Spec == Init /\ [][Next]_vars

-----------------------------------------------------------------------------
(* formatResults on its own: every payload shape, rendered by the test tab *)

SourceOnlyItem == [source |-> [database |-> "db1"]]
HitsOnlyItem == [hits |-> [count |-> 4]]
FallbackItem == [source |-> EmptyObject, hits |-> EmptyObject]

ItemKinds == {FullItem, SourceOnlyItem, HitsOnlyItem, FallbackItem, EmptyObject}

RECURSIVE SeqsUpTo(_, _)
SeqsUpTo(S, n) ==
  IF n = 0 THEN { << >> }
  ELSE LET shorter == SeqsUpTo(S, n - 1)
       IN shorter \cup { Append(q, x) : q \in shorter, x \in S }

ItemsValues ==
  { NotAnArray } \cup { Array(q) : q \in SeqsUpTo(ItemKinds, MaxItems) }

DataValues ==
  { EmptyObject, [count |-> 0], [count |-> 3] }
  \cup { [count |-> 3, items |-> v] : v \in ItemsValues }
  \cup { [items |-> Array(<< FullItem >>)] }

FmtInputs ==
  { Null, EmptyObject, [error |-> "boom"], [error |-> ""] }
  \cup { [data |-> d] : d \in DataValues }

\* a search was made from the test tab, the backend answered with any of
\* the payloads (or no search was made yet), and another tab was selected
InitFmt ==
  /\ mounted = TRUE
  /\ activeTab = "dashboard"
  /\ stats = EmptyObject
  /\ users = << >>
  /\ searches = << >>
  /\ loading = FALSE
  /\ searchQuery = << " ", "a" >>
  /\ searchResults \in FmtInputs
  /\ giveUserId = << >>
  /\ giveAttempts = << >>
  /\ loads = << NewRun("mount") >>
  /\ searchReq = << >>
  /\ giveReq = << >>
  /\ out = << >>
  /\ formatted = NotRendered

NextFmt == \E tab \in Tabs : setActiveTab(tab)

SpecFmt == InitFmt /\ [][NextFmt]_vars

-----------------------------------------------------------------------------
(* Steps and states the properties speak about *)

InitialView == stats = EmptyObject /\ users = << >> /\ searches = << >>

\* the three fields hold the three responses of run i
ViewOfRun(i) ==
  /\ stats = ResponseData("stats", i)
  /\ users = ResponseData("users", i)
  /\ searches = ResponseData("searches", i)

\* run i leaves the await in this step
RunFailsNow(i) == loads[i].st = "pending" /\ loads'[i].st = "failed"
RunAppliesNow(i) == loads[i].st = "pending" /\ loads'[i].st = "applied"

LoadStarts == Len(loads') = Len(loads) + 1

MountNow == ~mounted /\ mounted'

\* a search (grant) request completes in this step
SearchCompletes == Len(searchReq') < Len(searchReq)
SearchSucceeds ==
  SearchCompletes /\ out' # << "console.error: Search error:" >>
GiveCompletes == Len(giveReq') < Len(giveReq)
GiveSucceeds ==
  GiveCompletes /\ out' = << "alert: Attempts given successfully!" >>

IsAlert(o) ==
  o \in {"alert: Attempts given successfully!", "alert: Failed to give attempts"}

\* empty or whitespace only
IsBlank(s) == \A k \in 1..Len(s) : s[k] \in Whitespace

-----------------------------------------------------------------------------
(* Load Coordinator *)

\* no field holds a response of a run that failed
FailedRunsLeaveNoTrace ==
  \A i \in 1..Len(loads) :
    loads[i].st = "failed" =>
      /\ stats # ResponseData("stats", i)
      /\ users # ResponseData("users", i)
      /\ searches # ResponseData("searches", i)

\* C1: a run of loadDashboardData in which a read fails changes none of
\* stats, users and searches: the step in which it fails leaves the three
\* as they were, and no field ever holds a response of a run that failed,
\* whatever the other reads of the run did.
C1_FailedLoadKeepsView ==
  [][/\ \A i \in 1..Len(loads) : RunFailsNow(i) => UNCHANGED viewState
     /\ FailedRunsLeaveNoTrace
     /\ FailedRunsLeaveNoTrace']_vars

\* a run failed after an earlier run had filled the view, which still holds
\* the earlier responses
C1_Witness ==
  /\ out = << "console.error: Error loading dashboard data:" >>
  /\ \E i \in 1..Len(loads), j \in 1..Len(loads) :
       /\ loads[i].st = "failed"
       /\ loads[j].st = "applied"
       /\ ViewOfRun(j)

\* C2: the step in which the third read of a run succeeds sets stats, users
\* and searches to the responses of that run, all three in that step; no
\* step changes one of the three fields in any other way, so no state has
\* one or two fields of a run and the rest older.
C2_AppliedInOneStep ==
  [][/\ \A i \in 1..Len(loads) : RunAppliesNow(i) => ViewOfRun(i)'
     /\ viewState' # viewState =>
          \E i \in 1..Len(loads) : RunAppliesNow(i) /\ ViewOfRun(i)']_vars

\* the second run has just replaced the responses of the first
C2_Witness ==
  /\ Len(loads) >= 2
  /\ loads[1].st = "applied"
  /\ loads[2].st = "applied"
  /\ ViewOfRun(2)

\* the fields are the initial values or the responses of one applied run
ViewIsOneRun ==
  \/ InitialView /\ \A i \in 1..Len(loads) : loads[i].st # "applied"
  \/ \E i \in 1..Len(loads) : loads[i].st = "applied" /\ ViewOfRun(i)

\* C9: the three fields are the initial empty values or the three responses
\* of one run that succeeded, never a mix; the run that succeeds in a step
\* is the one whose responses the fields hold after it, started first or not.
C9_ViewIsOneRun ==
  [][/\ ViewIsOneRun
     /\ ViewIsOneRun'
     /\ \A i \in 1..Len(loads) : RunAppliesNow(i) => ViewOfRun(i)']_vars

\* two runs overlapped and both succeeded; the one started first completed
\* last and its responses are the ones shown
C9_Witness ==
  /\ Len(loads) >= 2
  /\ loads[1].st = "applied"
  /\ loads[2].st = "applied"
  /\ ViewOfRun(1)

\* C3 as stated: every successful search request and every successful grant
\* request starts a run of loadDashboardData.
C3_Original ==
  [][(SearchSucceeds \/ GiveSucceeds) => LoadStarts]_vars

\* C3: a run of loadDashboardData starts at mount and with every successful
\* grant request; a completing search request starts none; a run only ever
\* starts at mount, with a successful grant or from a tab with a Refresh
\* button, one run per step.
C3_LoadInvocations ==
  [][/\ (MountNow \/ GiveSucceeds) => LoadStarts
     /\ SearchCompletes => loads' = loads
     /\ Len(loads') # Len(loads) =>
          /\ LoadStarts
          /\ SubSeq(loads', 1, Len(loads)) = loads
          /\ \/ MountNow
             \/ GiveSucceeds
             \/ activeTab \in {"users", "searches"}]_vars

\* a search succeeded and the mount run is still the only run
C3_Witness ==
  /\ searchResults \in SearchPayloads
  /\ searchReq = << >>
  /\ Len(loads) = 1

-----------------------------------------------------------------------------
(* Search Tester and Attempt Granter *)

\* C4 as stated: loading is true exactly while a search request is
\* outstanding.
C4_Original == loading <=> searchReq # << >>

\* C4: loading is true exactly while a search request or a grant request is
\* outstanding; so it is true throughout a search, false when the search
\* starts and false once it completed, with or without error.
C4_BusyFlag == loading <=> (searchReq # << >> \/ giveReq # << >>)

\* a search has just failed and the flag is clear
C4_Witness ==
  /\ out = << "console.error: Search error:" >>
  /\ searchResults = [error |-> "Search failed"]
  /\ searchReq = << >>
  /\ ~loading

\* C5: the step in which a grant request succeeds empties both fields and
\* starts exactly one run of loadDashboardData.
C5_GrantSuccess ==
  [][GiveSucceeds =>
       /\ giveUserId' = << >>
       /\ giveAttempts' = << >>
       /\ LoadStarts
       /\ SubSeq(loads', 1, Len(loads)) = loads
       /\ loads'[Len(loads')] = NewRun("give")]_vars

\* a grant has just succeeded
C5_Witness ==
  /\ out = << "alert: Attempts given successfully!" >>
  /\ giveUserId = << >>
  /\ giveAttempts = << >>
  /\ Len(loads) >= 2
  /\ loads[Len(loads)] = NewRun("give")

\* C6: a click on Search with an empty or whitespace-only query sends no
\* request and leaves the result, the busy flag and the rest of the view
\* state as they were.
C6_BlankSearch ==
  [][(ClickSearch /\ IsBlank(searchQuery)) =>
       UNCHANGED <<mounted, activeTab, stats, users, searches, loading,
                   searchQuery, searchResults, giveUserId, giveAttempts,
                   loads, searchReq, giveReq, formatted>>]_vars

\* Search was clicked with a whitespace-only query while an earlier result
\* is shown
C6_Witness ==
  /\ out = << "disabled: Search" >>
  /\ searchQuery # << >>
  /\ IsBlank(searchQuery)
  /\ searchResults # Null
  /\ ~loading

\* C8 as stated: each control has at most one request outstanding, and the
\* busy flag stops no other control: with a search in flight the Give
\* Attempts button of filled-in fields is enabled, and likewise the Search
\* button with a grant in flight.
C8_Original ==
  /\ Len(searchReq) <= 1
  /\ Len(giveReq) <= 1
  /\ (searchReq # << >> /\ giveUserId # << >> /\ giveAttempts # << >>)
       => ~GiveDisabled
  /\ (giveReq # << >> /\ ~IsBlank(searchQuery)) => ~SearchDisabled

\* C8: the Search Tester and the Attempt Granter have at most one request
\* outstanding between them; the Refresh buttons do not look at the busy
\* flag, so a run of loadDashboardData can start whatever is in flight.
C8_BusyFlagScope ==
  /\ Len(searchReq) + Len(giveReq) <= 1
  /\ (mounted /\ activeTab \in {"users", "searches"} /\ RunsLeft > 0)
       => ENABLED ClickRefresh

\* a Refresh run and a search request are outstanding together
C8_Witness ==
  /\ loading
  /\ searchReq # << >>
  /\ \E i \in 1..Len(loads) :
       loads[i].by = "refresh" /\ loads[i].st = "pending"

\* C10: the step in which a grant succeeds clears the busy flag and leaves
\* the refresh run it started outstanding; the step in which that run fails
\* shows no alert and leaves the two fields and the busy flag as they were.
C10_RefreshNotAwaited ==
  [][/\ GiveSucceeds =>
          /\ loading' = FALSE
          /\ loads'[Len(loads')].st = "pending"
     /\ \A i \in 1..Len(loads) :
          (RunFailsNow(i) /\ loads[i].by = "give") =>
             /\ \A k \in 1..Len(out') : ~IsAlert(out'[k])
             /\ UNCHANGED <<giveUserId, giveAttempts, loading>>]_vars

\* the refresh run of a grant has just failed: flag clear, fields empty
C10_Witness ==
  /\ out = << "console.error: Error loading dashboard data:" >>
  /\ \E i \in 1..Len(loads) : loads[i].by = "give" /\ loads[i].st = "failed"
  /\ ~loading
  /\ giveUserId = << >>
  /\ giveAttempts = << >>

-----------------------------------------------------------------------------
(* Result Formatter *)

\* the payload has no error and a count above 0, and the test tab shows it
FmtCase ==
  /\ activeTab = "test"
  /\ searchResults # Null
  /\ ~(Has(searchResults, "error") /\ searchResults.error # "")
  /\ Has(searchResults, "data")
  /\ Has(searchResults.data, "count")
  /\ searchResults.data.count > 0
  /\ Has(searchResults.data, "items")
  /\ searchResults.data.items.isArray

FmtItems == searchResults.data.items.elems

\* the text has the 3-line block numbered i, followed by its blank line
BlockShown(i) ==
  \E k \in 1..(Len(formatted) - 3) :
    /\ formatted[k].line = "Database"
    /\ formatted[k].number = i
    /\ formatted[k + 1].line = "Collection"
    /\ formatted[k + 2].line = "Hits"
    /\ formatted[k + 3] = BlankLine

HeaderShown ==
  /\ Len(formatted) >= 2
  /\ formatted[1] = [line |-> "Found", count |-> searchResults.data.count]
  /\ formatted[2] = BlankLine

\* C7 as stated: an entry among the first 5 is skipped only when it has
\* neither source nor hits.
C7_Original ==
  FmtCase =>
    /\ HeaderShown
    /\ \A i \in 1..Len(FmtItems) :
         BlockShown(i) <=>
           (i <= 5 /\ (Has(FmtItems[i], "source") \/ Has(FmtItems[i], "hits")))

\* C7: the text is the header and one block for each of the first 5 entries
\* that has both source and hits, numbered by its place in data.items; an
\* entry lacking source or hits is skipped, and so is every entry from the
\* sixth on.
C7_FirstFiveBlocks ==
  FmtCase =>
    /\ HeaderShown
    /\ \A i \in 1..Len(FmtItems) :
         BlockShown(i) <=>
           (i <= 5 /\ Has(FmtItems[i], "source") /\ Has(FmtItems[i], "hits"))
    /\ Len(formatted) =
         2 + 4 * Cardinality({i \in 1..Len(FmtItems) :
                                /\ i <= 5
                                /\ Has(FmtItems[i], "source")
                                /\ Has(FmtItems[i], "hits")})

\* six entries: the first lacks hits and is skipped, the fifth is shown, the
\* sixth is complete and cut off
C7_Witness ==
  /\ FmtCase
  /\ Len(FmtItems) >= 6
  /\ FmtItems[1] = SourceOnlyItem
  /\ FmtItems[5] = FullItem
  /\ FmtItems[6] = FullItem
  /\ BlockShown(5)
  /\ ~BlockShown(1)
  /\ ~BlockShown(6)

====
